---- MODULE Spec2Model ----
(***************************************************************************)
(* LLM-Arena run orchestrator.                                             *)
(*                                                                         *)
(* Two OS processes are modelled: the UI process that owns the run store   *)
(* (Store, PATCH /api/runs/[runId]) and the orchestrator daemon            *)
(* (RunManager, DockerRuntime, LLMClient, GatewayRegistry and the express  *)
(* routes).  The daemon is single-threaded JavaScript: a step of a         *)
(* lifecycle task or of a request handler is the completion of the call it *)
(* awaits (the effect of the call on the store, the container engine or    *)
(* the file system) followed by the synchronous code that runs up to the   *)
(* next await.  Where that synchronous code writes the Gateway Registry    *)
(* or reads the active-container map after a PATCH, the PATCH's effect on  *)
(* the store and the resumption are separate steps.                        *)
(***************************************************************************)
EXTENDS Integers, Sequences, FiniteSets, TLC

\* ------------------------------------------------------------------ bounds
MaxKills == 2          \* DELETE /api/runs/:runId requests in one behaviour
MaxModels == 2         \* models of the largest session submitted
MaxRestarts == 1       \* POST /api/runs/:runId/start requests per run
PortRangeSize == 4     \* ports in the allocator's range [minPort, maxPort]
MaxPatches == 2        \* PATCH /api/runs/:runId requests sent by clients of the UI
MaxTime == 2           \* the latest value of the UI's clock

\* ------------------------------------------------------- program constants
MaxAttempts == 30      \* waitForHealthyUrl(container.internalUrl, 30)
MinPort == 3001        \* new PortAllocator(minPort = 3001, ...)
MinPromptLen == 10     \* prompt: z.string().min(10, ...)
MinSessionModels == 1  \* models: z.array(...).min(1, ...)
MaxSessionModels == 6  \* models: z.array(...).max(6, ...)

SessionOrder == <<"s1", "s2">>        \* nanoid() values for sessions, in the order drawn
SessionIds == {SessionOrder[i] : i \in 1..Len(SessionOrder)}
RunOrder == <<"r1", "r2", "r3", "r4", "r5", "r6">>   \* nanoid() values, in the order drawn
RunIds == {RunOrder[i] : i \in 1..Len(RunOrder)}
HostPorts == {49153, 49154}     \* host ports Docker may bind ('HostPort': '')

NoCwd == 0             \* the directory the daemon was started in
Procs == 1..(MaxModels + MaxRestarts + MaxKills)

ForwardOrder == <<"queued", "generating", "installing", "building",
                  "starting", "healthy", "ready">>
NonTerminal == {ForwardOrder[i] : i \in 1..Len(ForwardOrder)}
Terminal == {"failed", "terminated"}

VARIABLES
  now,          \* new Date(): the UI process's clock
  sessions,     \* Store.sessions : sessionId -> Session
  runs,         \* Store.runs     : runId -> Run
  statusLog,    \* per run, the distinct status values the store has held, in order
  procs,        \* lifecycle tasks (processRun) and kill handlers (DELETE) of the daemon
  nprocs,       \* number of procs created so far
  runToUrl,     \* GatewayRegistry.runToUrl
  containers,   \* DockerRuntime.containers : runId -> {container, hostPort}
  buildC,       \* engine: state of the container named build-<runId>
  runC,         \* engine: the container named run-<runId>
  ws,           \* file system: does ${workspaceBase}/<runId> exist
  cwd,          \* process.cwd() of the daemon: NoCwd or the temp dir of a task
  tmpDirs,      \* file system: existing /tmp/opencode-workspace-* dirs, by task
  usedPorts,    \* PortAllocator.usedPorts
  storeLog,     \* Store: ids nanoid() has issued, issued sessions passed to deleteSession
  ret           \* what the last call of allocate / release or POST /api/sessions answered

vars == <<now, sessions, runs, statusLog, procs, nprocs, runToUrl, containers,
          buildC, runC, ws, cwd, tmpDirs, usedPorts, storeLog, ret>>

\* the state of the daemon and of the UI's store, without the allocator
daemonVars == <<now, sessions, runs, statusLog, procs, nprocs, runToUrl,
                containers, buildC, runC, ws, cwd, tmpDirs, storeLog>>

\* ------------------------------------------------------------- run store
\* { ...run, ...updates }
Merge(run, updates) ==
  [f \in DOMAIN run \cup DOMAIN updates |->
     IF f \in DOMAIN updates THEN updates[f] ELSE run[f]]

\* the run record createSession builds for one model
NewRun(runId, sessionId, modelConfig, t) ==
  [id |-> runId, sessionId |-> sessionId, model |-> modelConfig.model,
   provider |-> modelConfig.provider, status |-> "queued",
   createdAt |-> t, updatedAt |-> t]

\* updateRun that stores the partial record in place of the run
UpdateRunReplaces(rs, runId, updates, t) ==
  IF runId \notin DOMAIN rs THEN rs
  ELSE [rs EXCEPT ![runId] = Merge(updates, [updatedAt |-> t])]

\* Store.updateRun: the run map after merging `updates` into run `runId`
UpdateRun(rs, runId, updates, t) ==
  IF runId \notin DOMAIN rs THEN rs
  ELSE [rs EXCEPT ![runId] = Merge(Merge(rs[runId], updates), [updatedAt |-> t])]

\* Store.updateRun: the session map after the parent's updatedAt is bumped
TouchSession(ss, rs, runId, t) ==
  IF runId \in DOMAIN rs /\ rs[runId].sessionId \in DOMAIN ss
  THEN [ss EXCEPT ![rs[runId].sessionId].updatedAt = t]
  ELSE ss

StatusOf(r) == IF r \in DOMAIN runs THEN runs[r].status ELSE "none"

Field(run, f, dflt) == IF f \in DOMAIN run THEN run[f] ELSE dflt

\* the store after PATCH /api/runs/<runId> with body `updates`
Patch(runId, updates) ==
  /\ runs' = UpdateRun(runs, runId, updates, now)
  /\ sessions' = TouchSession(sessions, runs, runId, now)
  /\ statusLog' =
       IF runId \in DOMAIN runs /\ "status" \in DOMAIN updates
          /\ updates.status # runs[runId].status
       THEN [statusLog EXCEPT ![runId] = Append(@, updates.status)]
       ELSE statusLog
  /\ UNCHANGED now

\* ------------------------------------------------------ gateway registry
RegisterUrl(reg, runId, url) ==
  [r \in DOMAIN reg \cup {runId} |-> IF r = runId THEN url ELSE reg[r]]

\* unregister(runId) that empties the map
UnregisterClears(reg, runId) == << >>

Unregister(reg, runId) == [r \in DOMAIN reg \ {runId} |-> reg[r]]

\* resolve(): the URL, or 0 for null
Resolve(reg, runId) == IF runId \in DOMAIN reg THEN reg[runId] ELSE 0

\* size(): this.runToUrl.size
Size(reg) == Cardinality(DOMAIN reg)

\* --------------------------------------------------------- port allocator
MaxPort == MinPort + PortRangeSize - 1
PortRange == MinPort..MaxPort

\* allocate(): for (port = from; port <= maxPort; port++) the first port not
\* in usedPorts is returned; 0 stands for falling out of the loop
RECURSIVE ScanPorts(_, _)
ScanPorts(used, from) ==
  IF from > MaxPort THEN 0
  ELSE IF from \notin used THEN from
  ELSE ScanPorts(used, from + 1)

\* allocate() with the scan started one port too high
AllocateSkipsFirst(used) == ScanPorts(used, MinPort + 1)

\* allocate() with the loop test port < maxPort
AllocateStopsEarly(used) ==
  IF ScanPorts(used, MinPort) = MaxPort THEN 0 ELSE ScanPorts(used, MinPort)

\* the port allocate() returns, 0 when it throws 'No available ports'
AllocatePort(used) == ScanPorts(used, MinPort)

\* usedPorts after allocate()
AfterAllocate(used) ==
  IF AllocatePort(used) = 0 THEN used ELSE used \cup {AllocatePort(used)}

\* release(port) that clears the whole set
ReleaseClears(used, port) == IF port \in used THEN {} ELSE used

\* release(port) that frees the port below the one passed
ReleaseOffByOne(used, port) == used \ {port - 1}

\* usedPorts after release(port): Set.delete
AfterRelease(used, port) == used \ {port}

GetUsedCount(used) == Cardinality(used)

GetAvailableCount(used) == MaxPort - MinPort + 1 - Cardinality(used)

\* a call and its answer: the operation, "ok" or the error thrown, the port
\* returned or passed, and usedPorts as the call found it
NoCall == [op |-> "none", status |-> "none", value |-> 0, before |-> {}]

\* ret after one more call: the last two calls are kept
Answer(call) == [last |-> call, prev |-> ret.last]

\* ret after a call of which only the answer is kept
Only(call) == [last |-> call, prev |-> NoCall]

\* await portAllocator.allocate()
Allocate ==
  /\ usedPorts' = AfterAllocate(usedPorts)
  /\ ret' = Answer([op |-> "allocate",
                    status |-> IF AllocatePort(usedPorts) = 0
                               THEN "No available ports" ELSE "ok",
                    value |-> AllocatePort(usedPorts),
                    before |-> usedPorts])
  /\ UNCHANGED daemonVars

\* portAllocator.release(port)
Release(port) ==
  /\ usedPorts' = AfterRelease(usedPorts, port)
  /\ ret' = Answer([op |-> "release", status |-> "ok", value |-> port,
                    before |-> usedPorts])
  /\ UNCHANGED daemonVars

\* ------------------------------------------- gateway registry, called alone
\* URLs a caller may register: the URL of a host port, or 0 for the empty
\* string, which resolve() answers with null (get(runId) || null)
Urls == HostPorts \cup {0}

\* the run ids a caller registers: the first three drawn
RegistryIds == {RunOrder[i] : i \in 1..3}

\* gatewayRegistry.registerUrl(runId, url)
CallRegisterUrl(runId, url) ==
  /\ runToUrl' = RegisterUrl(runToUrl, runId, url)
  /\ ret' = Answer([op |-> "registerUrl", status |-> "ok", value |-> url,
                    before |-> runToUrl, id |-> runId])
  /\ UNCHANGED <<usedPorts, storeLog, now, sessions, runs, statusLog, procs, nprocs, containers,
                 buildC, runC, ws, cwd, tmpDirs>>

\* gatewayRegistry.unregister(runId)
CallUnregister(runId) ==
  /\ runToUrl' = Unregister(runToUrl, runId)
  /\ ret' = Answer([op |-> "unregister", status |-> "ok", value |-> 0,
                    before |-> runToUrl, id |-> runId])
  /\ UNCHANGED <<usedPorts, storeLog, now, sessions, runs, statusLog, procs, nprocs, containers,
                 buildC, runC, ws, cwd, tmpDirs>>

\* ----------------------------------------------------------- initial state
NoProc == [kind |-> "free", run |-> "r1", pc |-> "free", err |-> "",
           attempts |-> 0, ocwd |-> NoCwd, code |-> "", cid |-> 0, port |-> 0,
           exit |-> 0, seen |-> "none", seenBuild |-> "none", extFail |-> FALSE,
           http |-> 0, lost |-> FALSE, hits |-> 0, cleanupErr |-> FALSE,
           todo |-> << >>]

NoContainer == [id |-> 0, state |-> "none", port |-> 0]

Init ==
  /\ now = 1
  /\ sessions = << >>
  /\ runs = << >>
  /\ statusLog = [r \in RunIds |-> << >>]
  /\ procs = [p \in Procs |-> NoProc]
  /\ nprocs = 0
  /\ runToUrl = << >>
  /\ containers = << >>
  /\ buildC = [r \in RunIds |-> "none"]
  /\ runC = [r \in RunIds |-> NoContainer]
  /\ ws = [r \in RunIds |-> FALSE]
  /\ cwd = NoCwd
  /\ tmpDirs = {}
  /\ usedPorts = {}
  /\ storeLog = [sessions |-> 0, runs |-> 0, purged |-> {}]
  /\ ret = [last |-> NoCall, prev |-> NoCall]

\* --------------------------------------------------------------- helpers
Tasks == {p \in Procs : procs[p].kind = "task"}
Kills == {p \in Procs : procs[p].kind = "kill"}

Set(p, fields) == procs' = [procs EXCEPT ![p] = Merge(@, fields)]

At(p, kind, pc) == procs[p].kind = kind /\ procs[p].pc = pc

DirExists(d) == d = NoCwd \/ d \in tmpDirs

\* a rejected step of processRun's try block: control goes to its catch, which
\* issues the PATCH {status: 'failed', ...}
Fail(p, msg, external) ==
  Set(p, [pc |-> "patchFailed", err |-> msg,
          extFail |-> (procs[p].extFail \/ external)])

\* a rejected step of createRun's try block: its catch removes the workspace
FailCreate(p, msg) ==
  Set(p, [pc |-> "cleanupWs", err |-> msg, extFail |-> TRUE])

\* ------------------------------------------- session creation and start
\* the index of a run id in the order the ids are drawn
IndexOf(r) == CHOOSE i \in 1..Len(RunOrder) : RunOrder[i] = r

\* the ids createSession draws for a session of n runs: the next unissued ones
NextSessionId == SessionOrder[storeLog.sessions + 1]

NextRunIds(n) == SubSeq(RunOrder, storeLog.runs + 1, storeLog.runs + n)

\* Store.createSession(prompt, models): the runs get the next ids, in order
CreateSession(sid, prompt, models) ==
  LET n == Len(models)
      ids == NextRunIds(n)
      created == [i \in 1..n |-> NewRun(ids[i], sid, models[i], now)]
  IN /\ runs' = [r \in DOMAIN runs \cup {ids[i] : i \in 1..n} |->
                   IF r \in DOMAIN runs THEN runs[r]
                   ELSE created[IndexOf(r) - storeLog.runs]]
     /\ sessions' = [s \in DOMAIN sessions \cup {sid} |->
                       IF s = sid
                       THEN [id |-> sid, prompt |-> prompt, runs |-> created,
                             createdAt |-> now, updatedAt |-> now]
                       ELSE sessions[s]]
     /\ statusLog' = [r \in RunIds |->
                        IF r \in {ids[i] : i \in 1..n} THEN <<"queued">>
                        ELSE statusLog[r]]
     /\ storeLog' = [storeLog EXCEPT !.sessions = @ + 1, !.runs = @ + n]

\* Store.getSession that answers the run records the session was created with
GetSessionStale(ss, rs, sid) == IF sid \in DOMAIN ss THEN ss[sid] ELSE << >>

\* Store.getSession(sessionId): the session with its runs read from the run
\* map; << >> stands for undefined
GetSession(ss, rs, sid) ==
  IF sid \notin DOMAIN ss THEN << >>
  ELSE Merge(ss[sid],
             [runs |-> [i \in 1..Len(ss[sid].runs) |-> rs[ss[sid].runs[i].id]]])

\* processRun(run, prompt) up to its first await: the PATCH 'generating' is issued
NewTask(r) == Merge(NoProc, [kind |-> "task", run |-> r, pc |-> "patchGenerating"])

\* POST /api/sessions/:sessionId/start: one processRun per run, none awaited
StartSession(rs) ==
  /\ nprocs + Len(rs) \in Procs
  /\ procs' = [p \in Procs |->
                 IF p \in (nprocs + 1)..(nprocs + Len(rs))
                 THEN NewTask(rs[p - nprocs]) ELSE procs[p]]
  /\ nprocs' = nprocs + Len(rs)

\* ------------------------------------------------ POST /api/sessions (UI)
Providers == {"openai", "anthropic", "google", "xai", "meta", "deepseek"}

\* one model of each provider
SixModels ==
  << [provider |-> "openai", model |-> "gpt-4o"],
     [provider |-> "anthropic", model |-> "claude-sonnet"],
     [provider |-> "google", model |-> "gemini-pro"],
     [provider |-> "xai", model |-> "grok"],
     [provider |-> "meta", model |-> "llama"],
     [provider |-> "deepseek", model |-> "deepseek-chat"] >>

\* entries a client may send that the schema refuses: a provider outside the
\* enum, no model, no provider
BadEntries == {[provider |-> "mistral", model |-> "mistral-large"],
               [provider |-> "google"],
               [model |-> "gpt-4o"]}

\* values of `models` a client may send: none, one, two, six and seven models,
\* and lists whose last entry the schema refuses
ModelLists ==
  {<< >>, SubSeq(SixModels, 1, 1), SubSeq(SixModels, 1, 2), SixModels,
   SixModels \o <<SixModels[1]>>}
  \cup {<<e>> : e \in BadEntries}
  \cup {SubSeq(SixModels, 1, 5) \o <<[provider |-> "mistral", model |-> "mistral-large"]>>}

\* values of `prompt` a client may send: 9, 10 and 12 characters
Prompts == {"todo app.", "a todo app", "build a blog"}

\* request bodies: JSON objects with or without the two properties, and a body
\* that is not JSON
Bodies ==
  {[prompt |-> p, models |-> SubSeq(SixModels, 1, 1)] : p \in Prompts}
  \cup {[prompt |-> "a todo app", models |-> ms] : ms \in ModelLists}
  \cup {[prompt |-> "a todo app"], [models |-> SubSeq(SixModels, 1, 1)]}

Requests ==
  {[json |-> TRUE, body |-> b] : b \in Bodies}
  \cup {[json |-> FALSE, body |-> [text |-> "{prompt:"]]}

\* the request a well-behaved client sends for the first n providers
ValidRequest(n) ==
  [json |-> TRUE, body |-> [prompt |-> "a todo app", models |-> SubSeq(SixModels, 1, n)]]

\* createSessionSchema.safeParse(body).success
SafeParse(body) ==
  /\ "prompt" \in DOMAIN body
  /\ Len(body.prompt) >= MinPromptLen
  /\ "models" \in DOMAIN body
  /\ Len(body.models) >= MinSessionModels
  /\ Len(body.models) <= MaxSessionModels
  /\ \A i \in 1..Len(body.models) :
        /\ "provider" \in DOMAIN body.models[i]
        /\ body.models[i].provider \in Providers
        /\ "model" \in DOMAIN body.models[i]

\* the answer of POST /api/sessions: HTTP status, the session id and run ids of
\* the 200 body, the request, and the ids of the sessions and runs the request
\* found in the store
Response(req, code, msg, sid, runIds) ==
  [op |-> "postSessions", status |-> msg, value |-> code,
   before |-> [sessions |-> DOMAIN sessions, runs |-> DOMAIN runs], req |-> req,
   sessionId |-> sid, runIds |-> runIds]

\* POST /api/sessions: request.json() throws into the outer catch (500); a body
\* the schema refuses is answered 400; otherwise the session is created and the
\* daemon is triggered, which fails silently when the daemon is not up
PostSessions(req, up) ==
  /\ IF ~req.json
     THEN /\ ret' = Answer(Response(req, 500, "Failed to create session", "", << >>))
          /\ UNCHANGED <<sessions, runs, statusLog, storeLog, procs, nprocs>>
     ELSE IF ~SafeParse(req.body)
     THEN /\ ret' = Answer(Response(req, 400, "validation", "", << >>))
          /\ UNCHANGED <<sessions, runs, statusLog, storeLog, procs, nprocs>>
     ELSE LET n == Len(req.body.models) IN
          /\ storeLog.sessions < Len(SessionOrder)
          /\ storeLog.runs + n <= Len(RunOrder)
          /\ CreateSession(NextSessionId, req.body.prompt, req.body.models)
          /\ IF up THEN StartSession(NextRunIds(n))
                   ELSE UNCHANGED <<procs, nprocs>>
          /\ ret' = Answer(Response(req, 200, "ok", NextSessionId, NextRunIds(n)))
  /\ UNCHANGED <<usedPorts, now, runToUrl, containers, buildC, runC, ws, cwd, tmpDirs>>

\* the first session, of at most maxModels models, is submitted while the
\* daemon is up
PostSession(maxModels) ==
  /\ storeLog.sessions = 0
  /\ \E n \in 1..maxModels : PostSessions(ValidRequest(n), TRUE)

\* the number of status changes the store has recorded for the first n run ids
RECURSIVE Changes(_)
Changes(n) ==
  IF n = 0 THEN 0
  ELSE Changes(n - 1)
       + (IF Len(statusLog[RunOrder[n]]) > 0 THEN Len(statusLog[RunOrder[n]]) - 1 ELSE 0)

\* PATCH /api/runs/:runId sent by a client with body {status: st}
PatchRun(r, st) ==
  /\ r \in DOMAIN runs
  /\ st # runs[r].status
  /\ Changes(Len(RunOrder)) < MaxPatches
  /\ Patch(r, [status |-> st])
  /\ UNCHANGED <<usedPorts, ret, storeLog, procs, nprocs, runToUrl, containers, buildC, runC, ws,
                 cwd, tmpDirs>>

\* --------------------------------------------- the store and its clients
\* the run ids clients name in PATCH and delete calls: the first two drawn
StoreRunIds == {RunOrder[i] : i \in 1..2}

\* partial records a client may PATCH: PATCH /api/runs/:runId passes the body
\* to updateRun as it is
Updates == {[status |-> "failed", error |-> "boom"],
            [sessionId |-> "s2"],
            [updatedAt |-> 0]}

\* PATCH bodies: a partial record, or a body that is not JSON
PatchRequests ==
  {[json |-> TRUE, body |-> u] : u \in Updates}
  \cup {[json |-> FALSE, body |-> [text |-> "{status:"]]}

\* PATCH /api/runs/:runId with its answer: 500 when the body does not parse,
\* 404 when updateRun returns undefined, else 200 with the updated run
PatchRequest(r, req) ==
  /\ IF ~req.json
     THEN /\ ret' = Only([op |-> "patchRun", status |-> "Failed to update run",
                            value |-> 500, before |-> {}, id |-> r, req |-> req])
          /\ UNCHANGED <<now, sessions, runs, statusLog>>
     ELSE IF r \notin DOMAIN runs
     THEN /\ ret' = Only([op |-> "patchRun", status |-> "Run not found",
                            value |-> 404, before |-> {}, id |-> r, req |-> req])
          /\ UNCHANGED <<now, sessions, runs, statusLog>>
     ELSE /\ ret' = Only([op |-> "patchRun", status |-> "ok",
                            value |-> 200, before |-> {}, id |-> r, req |-> req])
          /\ Patch(r, req.body)
  /\ UNCHANGED <<usedPorts, storeLog, procs, nprocs, runToUrl, containers, buildC, runC,
                 ws, cwd, tmpDirs>>

\* deleteRun that keeps a session whose last run it removed
DeleteRunKeepsSession(ss, rs, runId) ==
  IF runId \notin DOMAIN rs \/ rs[runId].sessionId \notin DOMAIN ss THEN ss
  ELSE [ss EXCEPT ![rs[runId].sessionId].runs = SelectSeq(@, LAMBDA x : x.id # runId)]

\* the session map after deleteRun(runId): the run leaves its session's list,
\* found by the sessionId the run carries, and an emptied session is deleted
SessionsAfterDeleteRun(ss, rs, runId) ==
  IF runId \notin DOMAIN rs \/ rs[runId].sessionId \notin DOMAIN ss THEN ss
  ELSE LET sid == rs[runId].sessionId
           left == SelectSeq(ss[sid].runs, LAMBDA x : x.id # runId)
       IN IF left = << >>
          THEN [x \in DOMAIN ss \ {sid} |-> ss[x]]
          ELSE [ss EXCEPT ![sid].runs = left]

\* Store.deleteRun(runId)
DeleteRun(r) ==
  /\ runs' = [x \in DOMAIN runs \ {r} |-> runs[x]]
  /\ sessions' = SessionsAfterDeleteRun(sessions, runs, r)
  /\ ret' = Only([op |-> "deleteRun", status |-> "ok", value |-> 0, before |-> {},
                    id |-> r])
  /\ UNCHANGED <<usedPorts, storeLog, now, statusLog, procs, nprocs, runToUrl, containers,
                 buildC, runC, ws, cwd, tmpDirs>>

\* Store.deleteSession(sessionId): the runs the session lists, then the session
DeleteSession(sid) ==
  /\ runs' = IF sid \notin DOMAIN sessions THEN runs
             ELSE [x \in DOMAIN runs \ {sessions[sid].runs[i].id :
                                          i \in 1..Len(sessions[sid].runs)} |-> runs[x]]
  /\ sessions' = [x \in DOMAIN sessions \ {sid} |-> sessions[x]]
  /\ storeLog' = [storeLog EXCEPT !.purged =
                    @ \cup ({sid} \cap {SessionOrder[i] : i \in 1..storeLog.sessions})]
  /\ ret' = Only([op |-> "deleteSession", status |-> "ok", value |-> 0, before |-> {},
                    id |-> sid])
  /\ UNCHANGED <<usedPorts, now, statusLog, procs, nprocs, runToUrl, containers,
                 buildC, runC, ws, cwd, tmpDirs>>

\* a client submits a session of n models while the daemon is not running
Submit(n) == PostSessions(ValidRequest(n), FALSE)

\* new Date() advances
Tick ==
  /\ now < MaxTime
  /\ now' = now + 1
  /\ UNCHANGED <<usedPorts, ret, storeLog, sessions, runs, statusLog, procs, nprocs,
                 runToUrl, containers, buildC, runC, ws, cwd, tmpDirs>>

\* POST /api/runs/:runId/start: processRun for one run, whatever its state
StartRun(r) ==
  /\ r \in DOMAIN runs
  /\ nprocs + 1 \in Procs
  /\ Cardinality({p \in Tasks : procs[p].run = r}) <= MaxRestarts
  /\ procs' = [procs EXCEPT ![nprocs + 1] = NewTask(r)]
  /\ nprocs' = nprocs + 1
  /\ UNCHANGED <<usedPorts, ret, storeLog, now, sessions, runs, statusLog, runToUrl, containers, buildC,
                 runC, ws, cwd, tmpDirs>>

\* ------------------------------------------------- processRun: generation
\* updateRunStatus(run.id, 'generating', {startedAt}) completes;
\* generateCode starts and awaits fs.mkdir(workspaceDir)
PatchGenerating(p) ==
  /\ At(p, "task", "patchGenerating")
  /\ Patch(procs[p].run, [status |-> "generating", startedAt |-> now])
  /\ Set(p, [pc |-> "mkdir"])
  /\ UNCHANGED <<usedPorts, ret, storeLog, nprocs, runToUrl, containers, buildC, runC, ws, cwd, tmpDirs>>

\* fs.mkdir completes; originalCwd = process.cwd(); process.chdir(workspaceDir);
\* createOpencode is awaited.  process.cwd() throws when the current directory
\* has been removed.
GenMkdir(p) ==
  /\ At(p, "task", "mkdir")
  /\ tmpDirs' = tmpDirs \cup {p}
  /\ IF DirExists(cwd)
     THEN /\ cwd' = p
          /\ Set(p, [pc |-> "opencode", ocwd |-> cwd])
     ELSE /\ cwd' = cwd
          /\ Fail(p, "ENOENT: uv_cwd", FALSE)
  /\ UNCHANGED <<usedPorts, ret, storeLog, now, sessions, runs, statusLog, nprocs, runToUrl, containers,
                 buildC, runC, ws>>

\* cleanCode(pageCode) and the files object: what the model's text amounts to
CodeKinds == {"page", "noDefaultExport", "emptyPage"}

\* the files object generateCode returns: only app/page.tsx is generated, the
\* manifest (package.json) is not part of it
FilesOf(code) ==
  [manifest |-> "none",
   page |-> CASE code = "page" -> "defaultExport"
              [] code = "noDefaultExport" -> "noDefaultExport"
              [] code = "emptyPage" -> "empty"]

\* LLMClient.validateCode on a file set: "" when accepted, else the message
\* thrown
ValidateFiles(files) ==
  IF files.page \in {"none", "empty"} THEN "Missing app/page.tsx"
  ELSE IF files.page = "noDefaultExport" THEN "page.tsx must have a default export"
  ELSE ""

\* this.llmClient.validateCode(llmResponse.code)
ValidateCode(code) == ValidateFiles(FilesOf(code))

\* the OpenCode calls (createOpencode, session.create, session.prompt) complete
\* with `outcome`; both finally blocks run: server.close(), then
\* process.chdir(originalCwd), which throws when that directory is gone, and
\* otherwise fs.rm(workspaceDir) is awaited
GenLLM(p) ==
  /\ At(p, "task", "opencode")
  /\ \E outcome \in CodeKinds \cup {"No text response from OpenCode"} :
       IF DirExists(procs[p].ocwd)
       THEN /\ cwd' = procs[p].ocwd
            /\ IF outcome \in CodeKinds
               THEN Set(p, [pc |-> "rmTmp", code |-> outcome])
               ELSE Set(p, [pc |-> "rmTmp", err |-> outcome, extFail |-> TRUE])
       ELSE /\ cwd' = cwd
            /\ Fail(p, "ENOENT: chdir",
                    outcome \notin CodeKinds \/ ValidateCode(outcome) # "")
  /\ UNCHANGED <<usedPorts, ret, storeLog, now, sessions, runs, statusLog, nprocs, runToUrl, containers,
                 buildC, runC, ws, tmpDirs>>

\* fs.rm(workspaceDir) completes and generateCode settles; on success
\* validateCode runs and updateRunStatus(run.id, 'installing') is awaited
GenRm(p) ==
  /\ At(p, "task", "rmTmp")
  /\ tmpDirs' = tmpDirs \ {p}
  /\ IF procs[p].err # "" THEN Fail(p, procs[p].err, FALSE)
     ELSE IF ValidateCode(procs[p].code) # ""
     THEN Fail(p, ValidateCode(procs[p].code), TRUE)
     ELSE Set(p, [pc |-> "patchInstalling"])
  /\ UNCHANGED <<usedPorts, ret, storeLog, now, sessions, runs, statusLog, nprocs, runToUrl, containers,
                 buildC, runC, ws, cwd>>

\* ------------------------------------------------ DockerRuntime.createRun
\* updateRunStatus(run.id, 'installing') completes; createRun starts and
\* prepareWorkspace awaits its first command
PatchInstalling(p) ==
  /\ At(p, "task", "patchInstalling")
  /\ Patch(procs[p].run, [status |-> "installing"])
  /\ Set(p, [pc |-> "prepare"])
  /\ UNCHANGED <<usedPorts, ret, storeLog, nprocs, runToUrl, containers, buildC, runC, ws, cwd, tmpDirs>>

\* prepareWorkspace: mkdir -p, cp -r of the template, overlay of code.files;
\* then buildPhase awaits docker.createContainer({name: build-<runId>})
PrepareWorkspace(p) ==
  /\ At(p, "task", "prepare")
  /\ ws' = [ws EXCEPT ![procs[p].run] = TRUE]
  /\ \E ok \in BOOLEAN :
       IF ok THEN Set(p, [pc |-> "buildCreate"])
       ELSE FailCreate(p, "Command failed: cp -r")
  /\ UNCHANGED <<usedPorts, ret, storeLog, now, sessions, runs, statusLog, nprocs, runToUrl, containers,
                 buildC, runC, cwd, tmpDirs>>

\* ------------------------------------- prepareWorkspace on a files object
\* a path is the sequence of its components: "a/b" is <<"a", "b">>, and an
\* absolute path starts with the empty component, "/etc/x" is <<"", "etc", "x">>
\* `${this.workspaceBase}/${runId}`
WorkspaceDir(runId) == <<"", "tmp", "llm-arena-workspaces", runId>>

\* path.normalize of an absolute path: empty and "." components are dropped
\* and ".." removes the component before it, if there is one
RECURSIVE Normalize(_, _)
Normalize(done, rest) ==
  IF rest = << >> THEN done
  ELSE IF Head(rest) \in {"", "."} THEN Normalize(done, Tail(rest))
  ELSE IF Head(rest) = ".."
       THEN Normalize(IF done = << >> THEN done ELSE SubSeq(done, 1, Len(done) - 1),
                      Tail(rest))
  ELSE Normalize(Append(done, Head(rest)), Tail(rest))

\* path.join(dir, filePath): the two are concatenated and normalized
PathJoin(dir, filePath) == Normalize(<< >>, dir \o filePath)

\* keys of code.files a caller may pass
FilePaths == {<<"app", "page.tsx">>, <<"package.json">>,
              <<"..", "r2", "app", "page.tsx">>,
              <<"app", "..", "..", "..", "passwd">>,
              <<"", "etc", "passwd">>,
              <<".", "lib", "util.ts">>,
              <<"lib", "..", "next.config.js">>}

\* await dockerRuntime.prepareWorkspace(dir, code) with code.files holding the
\* keys `files`: every file is written at path.join(dir, key); nothing is
\* refused
CallPrepareWorkspace(r, files) ==
  /\ ws' = [ws EXCEPT ![r] = TRUE]
  /\ ret' = Only([op |-> "prepareWorkspace", status |-> "ok", value |-> Cardinality(files),
                  before |-> {}, id |-> r, files |-> files,
                  written |-> {PathJoin(WorkspaceDir(r), f) : f \in files}])
  /\ UNCHANGED <<usedPorts, storeLog, now, sessions, runs, statusLog, procs, nprocs,
                 runToUrl, containers, buildC, runC, cwd, tmpDirs>>

\* docker.createContainer for the build container; the engine refuses a name
\* that is taken
BuildCreate(p) ==
  /\ At(p, "task", "buildCreate")
  /\ \E ok \in BOOLEAN :
       IF ok /\ buildC[procs[p].run] = "none"
       THEN /\ buildC' = [buildC EXCEPT ![procs[p].run] = "created"]
            /\ Set(p, [pc |-> "buildStart"])
       ELSE /\ buildC' = buildC
            /\ FailCreate(p, "engine: create build container")
  /\ UNCHANGED <<usedPorts, ret, storeLog, now, sessions, runs, statusLog, nprocs, runToUrl, containers,
                 runC, ws, cwd, tmpDirs>>

\* buildContainer.start(); then logs({follow}) and wait() are awaited
BuildStart(p) ==
  /\ At(p, "task", "buildStart")
  /\ \E ok \in BOOLEAN :
       IF ok
       THEN /\ buildC' = [buildC EXCEPT ![procs[p].run] = "running"]
            /\ Set(p, [pc |-> "buildWait"])
       ELSE /\ buildC' = buildC
            /\ FailCreate(p, "engine: start build container")
  /\ UNCHANGED <<usedPorts, ret, storeLog, now, sessions, runs, statusLog, nprocs, runToUrl, containers,
                 runC, ws, cwd, tmpDirs>>

\* buildContainer.wait() resolves with the exit code of
\* 'npm install && npm run build', or the engine call fails;
\* buildContainer.remove() is awaited next
BuildWait(p) ==
  /\ At(p, "task", "buildWait")
  /\ \E outcome \in {0, 1, -1} :      \* -1: the engine call rejects
       IF outcome >= 0
       THEN /\ buildC' = [buildC EXCEPT ![procs[p].run] = "exited"]
            /\ Set(p, [pc |-> "buildRemove", exit |-> outcome])
       ELSE /\ buildC' = buildC
            /\ FailCreate(p, "engine: wait build container")
  /\ UNCHANGED <<usedPorts, ret, storeLog, now, sessions, runs, statusLog, nprocs, runToUrl, containers,
                 runC, ws, cwd, tmpDirs>>

\* buildPhase without its StatusCode test: the build container is removed and
\* runPhase follows whatever the exit code
BuildRemoveIgnoresExit(p) ==
  /\ At(p, "task", "buildRemove")
  /\ buildC' = [buildC EXCEPT ![procs[p].run] = "none"]
  /\ Set(p, [pc |-> "runCreate"])
  /\ UNCHANGED <<usedPorts, ret, storeLog, now, sessions, runs, statusLog, nprocs, runToUrl, containers,
                 runC, ws, cwd, tmpDirs>>

\* buildContainer.remove(); a non-zero StatusCode is thrown as 'Build failed';
\* otherwise runPhase awaits docker.createContainer({name: run-<runId>})
BuildRemove(p) ==
  /\ At(p, "task", "buildRemove")
  /\ \E ok \in BOOLEAN :
       IF ok
       THEN /\ buildC' = [buildC EXCEPT ![procs[p].run] = "none"]
            /\ IF procs[p].exit # 0
               THEN FailCreate(p, "Build failed with exit code 1")
               ELSE Set(p, [pc |-> "runCreate"])
       ELSE /\ buildC' = buildC
            /\ FailCreate(p, "engine: remove build container")
  /\ UNCHANGED <<usedPorts, ret, storeLog, now, sessions, runs, statusLog, nprocs, runToUrl, containers,
                 runC, ws, cwd, tmpDirs>>

\* docker.createContainer for the runtime container; the container is
\* identified by the task that created it
RunCreate(p) ==
  /\ At(p, "task", "runCreate")
  /\ \E ok \in BOOLEAN :
       IF ok /\ runC[procs[p].run].state = "none"
       THEN /\ runC' = [runC EXCEPT ![procs[p].run] =
                          [id |-> p, state |-> "created", port |-> 0]]
            /\ Set(p, [pc |-> "runStart"])
       ELSE /\ runC' = runC
            /\ FailCreate(p, "engine: create run container")
  /\ UNCHANGED <<usedPorts, ret, storeLog, now, sessions, runs, statusLog, nprocs, runToUrl, containers,
                 buildC, ws, cwd, tmpDirs>>

\* host ports bound by running containers
BoundPorts == {runC[r].port : r \in {x \in RunIds : runC[x].state = "running"}}

\* runPhase with a host port fixed by the caller instead of chosen by Docker
\* among the free ones
RunStartAnyPort(p) ==
  /\ At(p, "task", "runStart")
  /\ \E port \in HostPorts :
       /\ runC[procs[p].run].id = p
       /\ runC' = [runC EXCEPT ![procs[p].run] =
                     [id |-> p, state |-> "running", port |-> port]]
       /\ Set(p, [pc |-> "runInspect"])
  /\ UNCHANGED <<usedPorts, ret, storeLog, now, sessions, runs, statusLog, nprocs, runToUrl,
                 containers, buildC, ws, cwd, tmpDirs>>

\* runContainer.start(): Docker binds a free host port to 3000/tcp;
\* runContainer.inspect() is awaited next
RunStart(p) ==
  /\ At(p, "task", "runStart")
  /\ \/ \E port \in HostPorts \ BoundPorts :
          /\ runC[procs[p].run].id = p
          /\ runC' = [runC EXCEPT ![procs[p].run] =
                        [id |-> p, state |-> "running", port |-> port]]
          /\ Set(p, [pc |-> "runInspect"])
     \/ /\ runC' = runC
        /\ FailCreate(p, "engine: start run container")
  /\ UNCHANGED <<usedPorts, ret, storeLog, now, sessions, runs, statusLog, nprocs, runToUrl, containers,
                 buildC, ws, cwd, tmpDirs>>

\* runContainer.inspect() completes.  With a port binding runPhase returns,
\* createRun records the container in this.containers and returns, and the
\* PATCH {status: 'starting', containerId, internalUrl} is awaited.  Without
\* one (the server process has already exited) or when the engine call rejects,
\* runPhase throws.
RunInspect(p) ==
  /\ At(p, "task", "runInspect")
  /\ \E outcome \in {"bound", "exited", "engineError"} :
       LET r == procs[p].run
           mine == runC[r].id = p /\ runC[r].state = "running" IN
       IF outcome = "bound" /\ mine
       THEN /\ containers' =
                 [x \in DOMAIN containers \cup {r} |->
                    IF x = r THEN [cid |-> p, hostPort |-> runC[r].port]
                    ELSE containers[x]]
            /\ runC' = runC
            /\ Set(p, [pc |-> "patchStarting", cid |-> p, port |-> runC[r].port])
       ELSE IF outcome = "exited" /\ mine
       THEN /\ containers' = containers
            /\ runC' = [runC EXCEPT ![r] = [id |-> p, state |-> "exited", port |-> 0]]
            /\ FailCreate(p, "Failed to get host port for container")
       ELSE /\ containers' = containers
            /\ runC' = runC
            /\ FailCreate(p, "engine: inspect run container")
  /\ UNCHANGED <<usedPorts, ret, storeLog, now, sessions, runs, statusLog, nprocs, runToUrl,
                 buildC, ws, cwd, tmpDirs>>

\* createRun's catch: cleanupWorkspace (rm -rf) completes, the error is
\* rethrown to processRun's catch
CleanupWs(p) ==
  /\ At(p, "task", "cleanupWs")
  /\ ws' = [ws EXCEPT ![procs[p].run] = FALSE]
  /\ Fail(p, procs[p].err, FALSE)
  /\ UNCHANGED <<usedPorts, ret, storeLog, now, sessions, runs, statusLog, nprocs, runToUrl, containers,
                 buildC, runC, cwd, tmpDirs>>

\* --------------------------------------------- processRun: health, ready
\* the PATCH {status: 'starting', containerId, internalUrl} completes;
\* waitForHealthyUrl issues its first fetch
PatchStarting(p) ==
  /\ At(p, "task", "patchStarting")
  /\ Patch(procs[p].run, [status |-> "starting", containerId |-> procs[p].cid,
                          internalUrl |-> procs[p].port])
  /\ Set(p, [pc |-> "probe", attempts |-> 0])
  /\ UNCHANGED <<usedPorts, ret, storeLog, nprocs, runToUrl, containers, buildC, runC, ws, cwd, tmpDirs>>

\* is a server reachable at http://localhost:<port>
Serving(port) == \E r \in RunIds : runC[r].state = "running" /\ runC[r].port = port

\* how one fetch(url, {signal: AbortSignal.timeout(5000)}) can end
ProbeOutcomes == {"2xx", "non2xx", "error", "timeout"}

\* the message processRun throws when waitForHealthyUrl returns false
HealthCheckError == "Server failed health check after 30 attempts"

\* waitForHealthyUrl with the loop test i <= maxAttempts: one probe too many
ProbeOffByOne(p) ==
  /\ At(p, "task", "probe")
  /\ \E outcome \in ProbeOutcomes :
       /\ outcome \in {"2xx", "non2xx"} => Serving(procs[p].port)
       /\ IF outcome = "2xx"
          THEN Set(p, [pc |-> "patchHealthy", attempts |-> procs[p].attempts + 1,
                       hits |-> procs[p].hits + 1])
          ELSE IF procs[p].attempts + 1 <= MaxAttempts
          THEN Set(p, [attempts |-> procs[p].attempts + 1])
          ELSE Set(p, [pc |-> "patchFailed", attempts |-> procs[p].attempts + 1,
                       err |-> HealthCheckError, extFail |-> TRUE])
  /\ UNCHANGED <<usedPorts, ret, storeLog, now, sessions, runs, statusLog, nprocs, runToUrl, containers,
                 buildC, runC, ws, cwd, tmpDirs>>

\* waitForHealthyUrl: one fetch completes.  response.ok returns true and the
\* PATCH 'healthy' is awaited; any other outcome sleeps 2 s and tries again,
\* and after maxAttempts misses the function returns false and processRun
\* throws.
Probe(p) ==
  /\ At(p, "task", "probe")
  /\ \E outcome \in ProbeOutcomes :
       /\ outcome \in {"2xx", "non2xx"} => Serving(procs[p].port)
       /\ IF outcome = "2xx"
          THEN Set(p, [pc |-> "patchHealthy", attempts |-> procs[p].attempts + 1,
                       hits |-> procs[p].hits + 1])
          ELSE IF procs[p].attempts + 1 < MaxAttempts
          THEN Set(p, [attempts |-> procs[p].attempts + 1])
          ELSE Set(p, [pc |-> "patchFailed", attempts |-> procs[p].attempts + 1,
                       err |-> HealthCheckError, extFail |-> TRUE])
  /\ UNCHANGED <<usedPorts, ret, storeLog, now, sessions, runs, statusLog, nprocs, runToUrl, containers,
                 buildC, runC, ws, cwd, tmpDirs>>

\* updateRunStatus(run.id, 'healthy') takes effect in the store
PatchHealthy(p) ==
  /\ At(p, "task", "patchHealthy")
  /\ Patch(procs[p].run, [status |-> "healthy"])
  /\ Set(p, [pc |-> "register"])
  /\ UNCHANGED <<usedPorts, ret, storeLog, nprocs, runToUrl, containers, buildC, runC, ws, cwd, tmpDirs>>

\* processRun resumes: gatewayRegistry.registerUrl(run.id, internalUrl), then
\* the PATCH {status: 'ready', completedAt} is issued
Register(p) ==
  /\ At(p, "task", "register")
  /\ runToUrl' = RegisterUrl(runToUrl, procs[p].run, procs[p].port)
  /\ Set(p, [pc |-> "patchReady"])
  /\ UNCHANGED <<usedPorts, ret, storeLog, now, sessions, runs, statusLog, nprocs, containers, buildC,
                 runC, ws, cwd, tmpDirs>>

\* the PATCH {status: 'ready', completedAt} completes; processRun returns
PatchReady(p) ==
  /\ At(p, "task", "patchReady")
  /\ Patch(procs[p].run, [status |-> "ready", completedAt |-> now])
  /\ Set(p, [pc |-> "done"])
  /\ UNCHANGED <<usedPorts, ret, storeLog, nprocs, runToUrl, containers, buildC, runC, ws, cwd, tmpDirs>>

\* processRun's catch: the PATCH {status: 'failed', error, logsError,
\* completedAt} takes effect in the store
PatchFailed(p) ==
  /\ At(p, "task", "patchFailed")
  /\ Patch(procs[p].run, [status |-> "failed", error |-> procs[p].err,
                          logsError |-> procs[p].err, completedAt |-> now])
  /\ Set(p, [pc |-> "cleanupBegin"])
  /\ UNCHANGED <<usedPorts, ret, storeLog, nprocs, runToUrl, containers, buildC, runC, ws, cwd, tmpDirs>>

\* ------------------------------------------------- DockerRuntime.killRun
\* where the caller of dockerRuntime.killRun continues when it returns:
\* processRun returns; RunManager.killRun issues the PATCH 'terminated'
AfterKill(p) == IF procs[p].kind = "task" THEN "done" ELSE "patchTerminated"

\* killRun up to its first await: without an entry in this.containers it
\* returns at once; with one, entry.container.stop({t: 10}) is awaited
KillBegin(proc, r) ==
  IF r \in DOMAIN containers
  THEN Merge(proc, [pc |-> "kStop", cid |-> containers[r].cid])
  ELSE Merge(proc, [pc |-> IF proc.kind = "task" THEN "done" ELSE "patchTerminated"])

\* processRun's catch without its cleanup: it returns after the PATCH
CleanupSkipped(p) ==
  /\ At(p, "task", "cleanupBegin")
  /\ Set(p, [pc |-> "done"])
  /\ UNCHANGED <<usedPorts, ret, storeLog, now, sessions, runs, statusLog, nprocs, runToUrl, containers,
                 buildC, runC, ws, cwd, tmpDirs>>

\* processRun's catch resumes after its PATCH: dockerRuntime.killRun(run.id)
CleanupBegin(p) ==
  /\ At(p, "task", "cleanupBegin")
  /\ procs' = [procs EXCEPT ![p] = KillBegin(@, procs[p].run)]
  /\ UNCHANGED <<usedPorts, ret, storeLog, now, sessions, runs, statusLog, nprocs, runToUrl, containers,
                 buildC, runC, ws, cwd, tmpDirs>>

\* entry.container.stop({t: 10}) and entry.container.kill(), errors of both
\* swallowed; entry.container.remove({force: true}) is awaited next
KStop(p) ==
  /\ procs[p].pc = "kStop"
  /\ LET r == procs[p].run IN
       runC' = IF runC[r].id = procs[p].cid /\ runC[r].state \in {"created", "running"}
               THEN [runC EXCEPT ![r].state = "exited", ![r].port = 0]
               ELSE runC
  /\ Set(p, [pc |-> "kRemove"])
  /\ UNCHANGED <<usedPorts, ret, storeLog, now, sessions, runs, statusLog, nprocs, runToUrl, containers,
                 buildC, ws, cwd, tmpDirs>>

\* the SIGTERM handler resumes after `await runManager.killRun(runId)` settled
\* (returned, or threw into the loop's catch): the for loop calls killRun for
\* the next run id of its snapshot, or, the snapshot exhausted, process.exit(0)
\* ends the process and with it every task and request handler in flight
TermResume(p, proc) ==
  IF proc.todo = << >>
  THEN procs' = [q \in Procs |->
                   IF q = p THEN Merge(proc, [pc |-> "exit"])
                   ELSE IF procs[q].pc \in {"free", "done"} THEN procs[q]
                   ELSE Merge(procs[q], [pc |-> "exited"])]
  ELSE procs' = [procs EXCEPT ![p] =
                   KillBegin(Merge(proc, [run |-> Head(proc.todo),
                                          todo |-> Tail(proc.todo), cid |-> 0]),
                             Head(proc.todo))]

\* killRun with this.containers.delete(runId) moved into a finally block: the
\* entry is dropped even when entry.container.remove rejects
KRemoveForgets(p) ==
  /\ procs[p].pc = "kRemove"
  /\ \E ok \in BOOLEAN :
       LET r == procs[p].run IN
       IF ok /\ runC[r].id = procs[p].cid /\ runC[r].state # "none"
       THEN /\ runC' = [runC EXCEPT ![r] = NoContainer]
            /\ containers' = containers
            /\ Set(p, [pc |-> "kRmWs"])
       ELSE /\ runC' = runC
            /\ containers' = [x \in DOMAIN containers \ {r} |-> containers[x]]
            /\ Set(p, [pc |-> "done", cleanupErr |-> TRUE,
                       http |-> IF procs[p].kind = "kill" THEN 500 ELSE 0])
  /\ UNCHANGED <<usedPorts, ret, storeLog, now, sessions, runs, statusLog, nprocs, runToUrl,
                 buildC, ws, cwd, tmpDirs>>

\* processRun's catch without the try/catch around its cleanup: a rejected
\* entry.container.remove leaves processRun as an unhandled rejection
KRemoveRejects(p) ==
  /\ procs[p].pc = "kRemove"
  /\ \E ok \in BOOLEAN :
       LET r == procs[p].run IN
       IF ok /\ runC[r].id = procs[p].cid /\ runC[r].state # "none"
       THEN /\ runC' = [runC EXCEPT ![r] = NoContainer]
            /\ Set(p, [pc |-> "kRmWs"])
       ELSE /\ runC' = runC
            /\ Set(p, [pc |-> IF procs[p].kind = "task" THEN "rejected" ELSE "done",
                       cleanupErr |-> TRUE,
                       http |-> IF procs[p].kind = "kill" THEN 500 ELSE 0])
  /\ UNCHANGED <<usedPorts, ret, storeLog, now, sessions, runs, statusLog, nprocs, runToUrl, containers,
                 buildC, ws, cwd, tmpDirs>>

\* entry.container.remove({force: true}): the engine removes the container, or
\* rejects (no such container, engine error) and killRun rethrows: processRun
\* logs the cleanup error and returns, the DELETE handler answers 500, the
\* SIGTERM handler logs the failure and goes on with its loop
KRemove(p) ==
  /\ procs[p].pc = "kRemove"
  /\ \E ok \in BOOLEAN :
       LET r == procs[p].run IN
       IF ok /\ runC[r].id = procs[p].cid /\ runC[r].state # "none"
       THEN /\ runC' = [runC EXCEPT ![r] = NoContainer]
            /\ Set(p, [pc |-> "kRmWs"])
       ELSE /\ runC' = runC
            /\ IF procs[p].kind = "term"
               THEN TermResume(p, Merge(procs[p], [cleanupErr |-> TRUE]))
               ELSE Set(p, [pc |-> "done", cleanupErr |-> TRUE,
                            http |-> IF procs[p].kind = "kill" THEN 500 ELSE 0])
  /\ UNCHANGED <<usedPorts, ret, storeLog, now, sessions, runs, statusLog, nprocs, runToUrl, containers,
                 buildC, ws, cwd, tmpDirs>>

\* cleanupWorkspace (rm -rf) completes; this.containers.delete(runId); killRun
\* returns to its caller
KRmWs(p) ==
  /\ procs[p].pc = "kRmWs"
  /\ ws' = [ws EXCEPT ![procs[p].run] = FALSE]
  /\ containers' = [x \in DOMAIN containers \ {procs[p].run} |-> containers[x]]
  /\ Set(p, [pc |-> AfterKill(p)])
  /\ UNCHANGED <<usedPorts, ret, storeLog, now, sessions, runs, statusLog, nprocs, runToUrl,
                 buildC, runC, cwd, tmpDirs>>

\* ------------------------------------------------ DELETE /api/runs/:runId
\* the request arrives: runManager.killRun(runId) calls dockerRuntime.killRun
KillRequest(r) ==
  /\ r \in DOMAIN runs
  /\ nprocs + 1 \in Procs
  /\ Cardinality(Kills) < MaxKills
  /\ procs' = [procs EXCEPT ![nprocs + 1] =
                 KillBegin(Merge(NoProc, [kind |-> "kill", run |-> r,
                                          seen |-> StatusOf(r),
                                          seenBuild |-> buildC[r]]), r)]
  /\ nprocs' = nprocs + 1
  /\ UNCHANGED <<usedPorts, ret, storeLog, now, sessions, runs, statusLog, runToUrl, containers, buildC,
                 runC, ws, cwd, tmpDirs>>

\* RunManager.killRun: updateRunStatus(runId, 'terminated') takes effect
PatchTerminated(p) ==
  /\ At(p, "kill", "patchTerminated")
  /\ Patch(procs[p].run, [status |-> "terminated"])
  /\ Set(p, [pc |-> "unregister"])
  /\ UNCHANGED <<usedPorts, ret, storeLog, nprocs, runToUrl, containers, buildC, runC, ws, cwd, tmpDirs>>

\* the DELETE handler resumes: gatewayRegistry.unregister(runId), 200
UnregisterRun(p) ==
  /\ At(p, "kill", "unregister")
  /\ runToUrl' = Unregister(runToUrl, procs[p].run)
  /\ Set(p, [pc |-> "done", http |-> 200])
  /\ UNCHANGED <<usedPorts, ret, storeLog, now, sessions, runs, statusLog, nprocs, containers, buildC,
                 runC, ws, cwd, tmpDirs>>

\* ------------------------------------------------ process.on('SIGTERM')
\* the daemon process is running
DaemonUp == \A p \in Procs : procs[p].pc # "exit"

\* the orders in which Array.from(this.containers.keys()) can list the map
Snapshots ==
  {q \in [1..Cardinality(DOMAIN containers) -> DOMAIN containers] :
     \A i, j \in DOMAIN q : i # j => q[i] # q[j]}

\* SIGTERM arrives: the handler takes getActiveContainers() and awaits
\* runManager.killRun for the first run id; with no active container it calls
\* process.exit(0) at once
SigTerm ==
  /\ \A p \in Procs : procs[p].kind # "term"
  /\ nprocs + 1 \in Procs
  /\ \E snapshot \in Snapshots :
       TermResume(nprocs + 1, Merge(NoProc, [kind |-> "term", todo |-> snapshot]))
  /\ nprocs' = nprocs + 1
  /\ UNCHANGED <<usedPorts, ret, storeLog, now, sessions, runs, statusLog, runToUrl, containers, buildC,
                 runC, ws, cwd, tmpDirs>>

\* RunManager.killRun called by the handler: updateRunStatus(runId,
\* 'terminated') takes effect and the handler's loop resumes
TermPatched(p) ==
  /\ At(p, "term", "patchTerminated")
  /\ Patch(procs[p].run, [status |-> "terminated"])
  /\ TermResume(p, procs[p])
  /\ UNCHANGED <<usedPorts, ret, storeLog, nprocs, runToUrl, containers, buildC, runC, ws, cwd, tmpDirs>>

\* POST /api/sessions while the daemon may be gone: the UI's start request
\* reaches it only when the process is running
PostSessionAnytime(maxModels) ==
  /\ storeLog.sessions = 0
  /\ \E n \in 1..maxModels : PostSessions(ValidRequest(n), DaemonUp)

\* ------------------------------------------------- RunManager.updateRun
\* the program points at which a PATCH issued through updateRun is awaited
PatchPcs == {"patchGenerating", "patchInstalling", "patchStarting",
             "patchHealthy", "patchReady", "patchFailed", "patchTerminated"}

\* where the caller continues once updateRun has settled
AfterPatch(pc) ==
  CASE pc = "patchGenerating" -> "mkdir"
    [] pc = "patchInstalling" -> "prepare"
    [] pc = "patchStarting" -> "probe"
    [] pc = "patchHealthy" -> "register"
    [] pc = "patchReady" -> "done"
    [] pc = "patchFailed" -> "cleanupBegin"
    [] pc = "patchTerminated" -> "unregister"

\* updateRun without its try/catch: a rejected axios.patch inside processRun's
\* try block is thrown to processRun's catch
PatchLostThrows(p) ==
  /\ procs[p].pc \in PatchPcs
  /\ IF procs[p].kind = "task" /\ procs[p].pc # "patchFailed"
     THEN Set(p, [pc |-> "patchFailed", err |-> "Request failed", lost |-> TRUE])
     ELSE Set(p, [pc |-> AfterPatch(procs[p].pc), lost |-> TRUE])
  /\ UNCHANGED <<usedPorts, ret, storeLog, now, sessions, runs, statusLog, nprocs, runToUrl, containers,
                 buildC, runC, ws, cwd, tmpDirs>>

\* axios.patch rejects (UI unreachable, non-2xx answer): updateRun logs the
\* error and returns; the store is not written and the caller continues
PatchLost(p) ==
  /\ procs[p].pc \in PatchPcs
  /\ Set(p, [pc |-> AfterPatch(procs[p].pc), lost |-> TRUE])
  /\ UNCHANGED <<usedPorts, ret, storeLog, now, sessions, runs, statusLog, nprocs, runToUrl, containers,
                 buildC, runC, ws, cwd, tmpDirs>>

\* ---------------------------------------------------------- specification
\* a step of a lifecycle task (processRun and what it calls)
TaskStep ==
  \/ \E p \in Procs : PatchGenerating(p)
  \/ \E p \in Procs : GenMkdir(p)
  \/ \E p \in Procs : GenLLM(p)
  \/ \E p \in Procs : GenRm(p)
  \/ \E p \in Procs : PatchInstalling(p)
  \/ \E p \in Procs : PrepareWorkspace(p)
  \/ \E p \in Procs : BuildCreate(p)
  \/ \E p \in Procs : BuildStart(p)
  \/ \E p \in Procs : BuildWait(p)
  \/ \E p \in Procs : BuildRemove(p)
  \/ \E p \in Procs : RunCreate(p)
  \/ \E p \in Procs : RunStart(p)
  \/ \E p \in Procs : RunInspect(p)
  \/ \E p \in Procs : CleanupWs(p)
  \/ \E p \in Procs : PatchStarting(p)
  \/ \E p \in Procs : Probe(p)
  \/ \E p \in Procs : PatchHealthy(p)
  \/ \E p \in Procs : Register(p)
  \/ \E p \in Procs : PatchReady(p)
  \/ \E p \in Procs : PatchFailed(p)
  \/ \E p \in Procs : CleanupBegin(p)
  \/ \E p \in Procs : KStop(p)
  \/ \E p \in Procs : KRemove(p)
  \/ \E p \in Procs : KRmWs(p)

\* a step of a DELETE /api/runs/:runId handler
KillStep ==
  \/ \E r \in RunIds : KillRequest(r)
  \/ \E p \in Procs : PatchTerminated(p)
  \/ \E p \in Procs : UnregisterRun(p)

\* One run: a session of one model is submitted, its run is processed, and
\* kill requests arrive at any time.
Next == PostSession(1) \/ TaskStep \/ KillStep

Spec == Init /\ [][Next]_vars

\* A session of several models: the runs are processed concurrently.
NextSession == PostSession(MaxModels) \/ TaskStep

SpecSession == Init /\ [][NextSession]_vars

\* One run whose callback PATCHes may fail: no kill, no sibling.
NextPatch == PostSession(1) \/ TaskStep \/ \E p \in Procs : PatchLost(p)

SpecPatch == Init /\ [][NextPatch]_vars

\* One run whose callback PATCHes may fail, under the scheduling of the event
\* loop: every awaited call of the task settles and its continuation is run.
SpecLive == Init /\ [][NextPatch]_vars /\ WF_vars(TaskStep)

\* Shutdown: the run of a one-model session is processed and SIGTERM arrives
\* at any time.
NextTerm ==
  \/ PostSessionAnytime(1)
  \/ TaskStep
  \/ SigTerm
  \/ \E p \in Procs : TermPatched(p)

SpecTerm == Init /\ [][NextTerm]_vars

\* a client retries a run once the store shows it finished
Retry(r) == StatusOf(r) \in Terminal \cup {"ready"} /\ StartRun(r)

\* One run and the per-run start endpoint: the run of a one-model session is
\* started again by a client that sees it ready, failed or terminated.
NextRestart == PostSession(1) \/ (\E r \in RunIds : Retry(r)) \/ TaskStep

SpecRestart == Init /\ [][NextRestart]_vars

\* The port allocator on its own: any sequence of allocate() and release(p),
\* p in the range or one below or above it.
NextPorts == Allocate \/ \E port \in (MinPort - 1)..(MaxPort + 1) : Release(port)

SpecPorts == Init /\ [][NextPorts]_vars

\* The UI process on its own, the daemon not running: clients submit sessions,
\* well-formed or not, and PATCH the status of runs.
NextApi ==
  \/ \E req \in Requests : PostSessions(req, FALSE)
  \/ \E r \in RunIds, st \in {"generating", "ready"} : PatchRun(r, st)

SpecApi == Init /\ [][NextApi]_vars

\* The store with creations and deletions only.
NextPurge ==
  \/ \E n \in 1..2 : Submit(n)
  \/ \E r \in StoreRunIds : DeleteRun(r)
  \/ \E sid \in SessionIds : DeleteSession(sid)

SpecPurge == Init /\ [][NextPurge]_vars

\* The store under every operation its clients have: sessions are submitted,
\* runs are PATCHed with arbitrary partial records, runs and sessions are
\* deleted, and the clock advances.
NextStore ==
  \/ \E n \in 1..2 : Submit(n)
  \/ \E r \in StoreRunIds, req \in PatchRequests : PatchRequest(r, req)
  \/ \E r \in StoreRunIds : DeleteRun(r)
  \/ \E sid \in SessionIds : DeleteSession(sid)
  \/ Tick

SpecStore == Init /\ [][NextStore]_vars

\* Workspace materialization on its own: prepareWorkspace is called for a run
\* with any files object over FilePaths.
NextWorkspace ==
  \E r \in StoreRunIds, files \in SUBSET FilePaths : CallPrepareWorkspace(r, files)

SpecWorkspace == Init /\ [][NextWorkspace]_vars

\* The gateway registry on its own: any sequence of registerUrl(id, url) and
\* unregister(id).
NextRegistry ==
  \/ \E r \in RegistryIds, url \in Urls : CallRegisterUrl(r, url)
  \/ \E r \in RegistryIds : CallUnregister(r)

SpecRegistry == Init /\ [][NextRegistry]_vars

\* ------------------------------------------------------------ properties
TasksOf(r) == {p \in Tasks : procs[p].run = r}
KillsOf(r) == {p \in Kills : procs[p].run = r}
Done(p) == procs[p].pc = "done"
Registered(r) == Resolve(runToUrl, r) # 0
Started(r) == TasksOf(r) # {}
Settled(r) == Started(r) /\ \A p \in TasksOf(r) \cup KillsOf(r) : Done(p)

\* C1: in every reachable state a run id resolves in the Gateway Registry if
\* and only if the run exists in the store and its status there is ready.
C1_RegistryIffReady ==
  \A r \in RunIds : Registered(r) <=> (r \in DOMAIN runs /\ runs[r].status = "ready")

\* C2: when a kill request issued while the run was in a non-terminal status
\* and the run's lifecycle task have both finished, the run is terminated, has
\* no build or runtime container, no workspace and no registry entry.
C2_KillWins ==
  \A k \in Kills :
    LET r == procs[k].run IN
    (procs[k].seen \in NonTerminal /\ Settled(r)) =>
      /\ StatusOf(r) = "terminated"
      /\ buildC[r] = "none"
      /\ runC[r].state = "none"
      /\ ~ws[r]
      /\ ~Registered(r)

\* C3: when processRun returns after a failed step, the run is failed with
\* the error message and completedAt recorded, its workspace is gone, no
\* container started for it is still running and the registry has no entry.
C3_FailureCleansUp ==
  \A p \in Tasks :
    LET r == procs[p].run IN
    (Done(p) /\ procs[p].err # "") =>
      /\ StatusOf(r) = "failed"
      /\ Field(runs[r], "error", "") = procs[p].err
      /\ Field(runs[r], "completedAt", 0) # 0
      /\ ~ws[r]
      /\ buildC[r] # "running"
      /\ runC[r].state # "running"
      /\ ~Registered(r)

\* the place of a status in the forward order, 0 for failed and terminated
Rank(st) == IF st \in NonTerminal
            THEN CHOOSE i \in 1..Len(ForwardOrder) : ForwardOrder[i] = st
            ELSE 0

\* a status change the state machine allows: forward, or into a terminal status
Allowed(a, b) ==
  /\ a \in NonTerminal
  /\ \/ b \in Terminal
     \/ Rank(a) < Rank(b)

\* C4: the status sequence a run shows in the store only moves forward along
\* queued .. ready or from a non-terminal status into failed or terminated,
\* and never leaves failed or terminated.
C4_MonotoneStatus ==
  \A r \in RunIds :
    \A i \in 1..(Len(statusLog[r]) - 1) :
      Allowed(statusLog[r][i], statusLog[r][i + 1])

\* the final status of a run processed alone, given the external responses
\* its task received
Alone(p) == IF procs[p].extFail THEN "failed" ELSE "ready"

\* C5: with several runs of a session processed concurrently and one of them
\* failing, every sibling ends with the status it would reach alone with the
\* same external responses.
C5_SiblingsIndependent ==
  \A p \in Tasks, q \in Tasks :
    (/\ procs[p].run # procs[q].run
     /\ Done(q) /\ procs[q].extFail
     /\ Done(p))
    => StatusOf(procs[p].run) = Alone(p)

\* C6: a kill of a run that is failed or terminated (and whose task has
\* returned) answers success and changes nothing: not the run's record in the
\* store, the registry, the active containers or the workspace.
C6_KillTerminalIsNoOp ==
  [][\A k \in Procs :
       LET r == procs'[k].run IN
       (/\ procs'[k].kind = "kill"
        /\ procs'[k] # procs[k]
        /\ procs'[k].seen \in Terminal
        /\ \A p \in TasksOf(r) : Done(p))
       => /\ runs' = runs
          /\ runToUrl' = runToUrl
          /\ containers' = containers
          /\ ws' = ws
          /\ procs'[k].http \in {0, 200}]_vars

\* C7: after a DELETE issued while the run is installing with its build
\* container running, no runtime container of the run is ever running and the
\* registry never holds the run; when the handler and the task have finished,
\* the run is terminated, the build container is stopped and the workspace is
\* removed.
C7_KillDuringInstall ==
  \A k \in Kills :
    LET r == procs[k].run IN
    (procs[k].seen = "installing" /\ procs[k].seenBuild = "running") =>
      /\ runC[r].state # "running"
      /\ ~Registered(r)
      /\ Settled(r) => (StatusOf(r) = "terminated" /\ buildC[r] # "running" /\ ~ws[r])

\* C8: whenever the store shows ready for a run, the registry resolves the
\* run to its URL.
C8_ReadyResolves ==
  \A r \in DOMAIN runs :
    runs[r].status = "ready" => Resolve(runToUrl, r) = runs[r].internalUrl

\* C9: the registry entry is removed before failed or terminated is
\* published: no state shows a run failed or terminated and still resolvable.
C9_UnregisterFirst ==
  \A r \in DOMAIN runs : runs[r].status \in Terminal => ~Registered(r)

\* C10: a run whose every step succeeds and which is never killed shows
\* exactly queued, generating, installing, building, starting, healthy, ready.
C10_HappyPathStatuses ==
  \A p \in Tasks :
    LET r == procs[p].run IN
    (Done(p) /\ procs[p].err = "" /\ KillsOf(r) = {}) => statusLog[r] = ForwardOrder

\* C11: in every state of the run store a run record holds a container handle
\* (containerId) if and only if its status is starting, healthy or ready.
C11_ContainerHandleIffLive ==
  \A r \in DOMAIN runs :
    ("containerId" \in DOMAIN runs[r]) <=> (runs[r].status \in {"starting", "healthy", "ready"})

\* C12: whenever the store shows a run failed or terminated, the run's
\* workspace directory does not exist.
C12_TerminalHasNoWorkspace ==
  \A r \in DOMAIN runs : runs[r].status \in Terminal => ~ws[r]

\* what the lifecycle engine made of a run: ready when processRun ran to the
\* end of its try block, failed when it went through its catch
Outcome(p) == IF procs[p].err = "" THEN "ready" ELSE "failed"

\* C13: with any subset of the callback PATCHes failing, processRun reaches the
\* outcome the external responses alone determine, and a run brought up has
\* been built, started, probed healthy and registered exactly as when every
\* PATCH succeeds.
C13_PatchFailureIsIgnored ==
  \A p \in Tasks :
    LET r == procs[p].run IN
    Done(p) =>
      /\ Outcome(p) = Alone(p)
      /\ Outcome(p) = "ready" =>
           /\ procs[p].hits = 1
           /\ r \in DOMAIN containers
           /\ runC[r].state = "running"
           /\ Resolve(runToUrl, r) = runC[r].port
      /\ Outcome(p) = "failed" => ~Registered(r)

\* C13 witness: a run is up and registered although PATCHes of its task failed
\* and the store never saw it become ready.
C13_Witness ==
  \E p \in Tasks :
    /\ Done(p) /\ procs[p].lost /\ Outcome(p) = "ready"
    /\ Registered(procs[p].run)
    /\ StatusOf(procs[p].run) # "ready"

\* C14: a start request launches a lifecycle task only for a run that is not
\* being processed, so at any time at most one lifecycle task is active per
\* run id.
C14_OneTaskPerRun ==
  \A r \in RunIds : Cardinality({p \in TasksOf(r) : ~Done(p)}) <= 1

\* the health phase of task p is over and every probe it made was a miss
AllProbesMissed(p) ==
  procs[p].attempts > 0 /\ procs[p].pc # "probe" /\ procs[p].hits = 0

BuildExitedNonZero(p) == procs[p].exit # 0

Generated(p) == FilesOf(procs[p].code)

\* error messages of the program that say a required file is missing
MissingRequiredFile == {"Missing required file: package.json"}

\* C17: when code generation returns a file set with no manifest and no page
\* source, the run ends failed with an error saying that a required file is
\* missing, and no build or runtime container is ever created for it.
C17_EmptyFileSet ==
  \A p \in Tasks :
    LET r == procs[p].run IN
    (/\ procs[p].code \in CodeKinds
     /\ Generated(p).manifest = "none" /\ Generated(p).page \in {"none", "empty"}
     /\ Done(p))
    => /\ StatusOf(r) = "failed"
       /\ Field(runs[r], "error", "") \in MissingRequiredFile
       /\ buildC[r] = "none"
       /\ runC[r].state = "none"

\* what the specification accepts: a manifest declaring a build and a start
\* script, and at least one page-level source file
SpecValid(files) == files.manifest = "buildAndStart" /\ files.page # "none"

\* C18: a generated file set passes validation, and its run enters
\* installing, if and only if it holds the manifest with a build and a start
\* script and at least one page-level source file.
C18_ValidationIffComplete ==
  \A p \in Tasks :
    (procs[p].code \in CodeKinds /\ Done(p)) =>
      /\ (ValidateFiles(Generated(p)) = "") <=> SpecValid(Generated(p))
      /\ (\E i \in 1..Len(statusLog[procs[p].run]) :
            statusLog[procs[p].run][i] = "installing") <=> SpecValid(Generated(p))

\* task p has been reported healthy by waitForHealthyUrl
ReportedHealthy(p) ==
  \/ procs[p].pc \in {"patchHealthy", "register", "patchReady"}
  \/ Done(p) /\ procs[p].err = ""

\* C19: the probe loop makes at most 30 probes; it stops and reports healthy
\* at the first probe answered 2xx and at no other (an error, a timeout or a
\* non-2xx answer is a miss); the run fails the health check if and only if
\* 30 probes were made and all missed.
C19_ProbeLoop ==
  \A p \in Tasks :
    /\ procs[p].attempts <= MaxAttempts
    /\ procs[p].hits <= 1
    /\ procs[p].hits = 1 <=> ReportedHealthy(p)
    /\ procs[p].err = HealthCheckError <=>
         (procs[p].pc # "probe" /\ procs[p].hits = 0 /\ procs[p].attempts = MaxAttempts)

\* C19 witness: a run reported healthy by its 30th probe, after 29 misses.
C19_Witness ==
  \E p \in Tasks :
    procs[p].hits = 1 /\ procs[p].attempts = MaxAttempts /\ ReportedHealthy(p)

\* processRun has returned for task p and its build container ran to its exit
\* (with code 0 and the run brought up, or with a non-zero code)
BuildFinished(p) ==
  Done(p) /\ procs[p].err \in {"", "Build failed with exit code 1"}

\* C20: after a build, successful or failed, the run record in the store has
\* its install-log and build-log fields set.
C20_BuildLogsRecorded ==
  \A p \in Tasks :
    BuildFinished(p) =>
      /\ "logsInstall" \in DOMAIN runs[procs[p].run]
      /\ "logsBuild" \in DOMAIN runs[procs[p].run]

\* runs whose runtime container is running
LiveRuns == {r \in RunIds : runC[r].state = "running"}

C22_UsedCountMatchesLiveRuns ==
  Cardinality(LiveRuns) = GetUsedCount(usedPorts)

\* the lowest port of a non-empty set
Lowest(S) == CHOOSE p \in S : \A q \in S : p <= q

\* the ports of the range not in an allocated set
FreePorts(used) == PortRange \ used

\* C23: an allocate() that finds a free port in the range returns the lowest
\* free port and adds exactly that port to the allocated set.
C23_AllocateLowestFree ==
  (ret.last.op = "allocate" /\ FreePorts(ret.last.before) # {}) =>
    /\ ret.last.status = "ok"
    /\ ret.last.value = Lowest(FreePorts(ret.last.before))
    /\ usedPorts = ret.last.before \cup {ret.last.value}
    /\ ret.last.value \notin ret.last.before

\* C23 witness: allocate() returned a port above a lower, allocated one while
\* a higher port was allocated too.
C23_Witness ==
  /\ ret.last.op = "allocate" /\ ret.last.status = "ok"
  /\ ret.last.value > MinPort /\ ret.last.value < MaxPort
  /\ MaxPort \in ret.last.before

\* C24: allocate() fails with the exhaustion error exactly when every port of
\* the range is allocated, and then leaves the allocated set unchanged.
C24_AllocateExhausted ==
  ret.last.op = "allocate" =>
    /\ (ret.last.status = "No available ports") <=> (FreePorts(ret.last.before) = {})
    /\ ret.last.status # "ok" => usedPorts = ret.last.before
    /\ ret.last.status \in {"ok", "No available ports"}

\* C24 witness: allocate() was called with the whole range allocated.
C24_Witness ==
  /\ ret.last.op = "allocate" /\ ret.last.status = "No available ports"
  /\ ret.last.before = PortRange /\ usedPorts = PortRange

\* C25: release(p) raises no error and removes p and nothing else; releasing
\* p a second time changes nothing, as does releasing a port that is not
\* allocated, whether in the range or outside it.
C25_ReleaseIdempotent ==
  /\ ret.last.op = "release" =>
       /\ ret.last.status = "ok"
       /\ usedPorts = ret.last.before \ {ret.last.value}
       /\ ret.last.value \notin ret.last.before => usedPorts = ret.last.before
  /\ (ret.last.op = "release" /\ ret.prev.op = "release"
      /\ ret.prev.value = ret.last.value) => usedPorts = ret.last.before

\* C25 witness: an allocated port was released twice in a row while other
\* ports stayed allocated.
C25_Witness ==
  /\ ret.last.op = "release" /\ ret.prev.op = "release"
  /\ ret.prev.value = ret.last.value
  /\ ret.prev.value \in ret.prev.before
  /\ usedPorts # {}

\* C26: allocate() followed by release of the port it returned leaves the
\* allocator as it was before the two calls (same set, same used and
\* available counts), and the next allocate() would return that port again.
C26_AllocateReleaseRoundTrip ==
  (/\ ret.last.op = "release" /\ ret.prev.op = "allocate"
   /\ ret.prev.status = "ok" /\ ret.last.value = ret.prev.value)
  => /\ usedPorts = ret.prev.before
     /\ GetUsedCount(usedPorts) = GetUsedCount(ret.prev.before)
     /\ GetAvailableCount(usedPorts) = GetAvailableCount(ret.prev.before)
     /\ AllocatePort(usedPorts) = ret.last.value

\* C26 witness: a port was allocated and released again while other ports
\* were allocated.
C26_Witness ==
  /\ ret.last.op = "release" /\ ret.prev.op = "allocate"
  /\ ret.prev.status = "ok" /\ ret.last.value = ret.prev.value
  /\ usedPorts # {} /\ usedPorts = ret.prev.before

\* C27: after unregister(id) the registry does not resolve id, size() counts
\* no entry for id and every other entry is as before; when the call before was
\* registerUrl(id, url) this holds whether or not id was registered before it;
\* unregister of an id that is not registered changes nothing.
C27_RegisterUnregister ==
  ret.last.op = "unregister" =>
    LET id == ret.last.id
        before == ret.last.before
    IN /\ Resolve(runToUrl, id) = 0
       /\ id \notin DOMAIN runToUrl
       /\ Size(runToUrl) = Cardinality(DOMAIN before \ {id})
       /\ \A r \in DOMAIN before \ {id} : Resolve(runToUrl, r) = Resolve(before, r)
       /\ (id \notin DOMAIN before => runToUrl = before)
       /\ (ret.prev.op = "registerUrl" /\ ret.prev.id = id =>
             /\ DOMAIN runToUrl = DOMAIN ret.prev.before \ {id}
             /\ \A r \in DOMAIN runToUrl : runToUrl[r] = ret.prev.before[r])

\* registerUrl(id, url) over an existing entry of id, then unregister(id), while
\* another run stays registered
C27_Witness ==
  /\ ret.last.op = "unregister"
  /\ ret.prev.op = "registerUrl"
  /\ ret.prev.id = ret.last.id
  /\ ret.prev.value # 0
  /\ ret.last.id \in DOMAIN ret.prev.before
  /\ Size(runToUrl) >= 1

\* C28: whenever the gateway registry resolves a run id to a URL, the run's
\* runtime container is in DockerRuntime.containers (the active-container set):
\* no run is resolved whose container has been stopped and removed.
C28_ResolvesOnlyLiveContainers ==
  \A r \in RunIds : Registered(r) => r \in DOMAIN containers

\* what the claim calls an acceptable request: a prompt of at least 10
\* characters and between 1 and 6 provider/model pairs of recognized providers
Acceptable(req) ==
  /\ req.json
  /\ DOMAIN req.body = {"prompt", "models"}
  /\ Len(req.body.prompt) >= 10
  /\ Len(req.body.models) \in 1..6
  /\ \A i \in 1..Len(req.body.models) :
        /\ DOMAIN req.body.models[i] = {"provider", "model"}
        /\ req.body.models[i].provider \in
             {"openai", "anthropic", "google", "xai", "meta", "deepseek"}

\* the sessions and runs of the store are those the last request found
NothingCreated ==
  /\ DOMAIN sessions = ret.last.before.sessions
  /\ DOMAIN runs = ret.last.before.runs

\* C29: POST /api/sessions answers 200 and creates the session if and only if
\* the request is acceptable; every other request is answered 400 and creates
\* no session and no run.
C29_AcceptIffValid ==
  ret.last.op = "postSessions" =>
    /\ (ret.last.value = 200 <=> Acceptable(ret.last.req))
    /\ (ret.last.value = 200 => ret.last.sessionId \in DOMAIN sessions)
    /\ (ret.last.value # 200 => ret.last.value = 400 /\ NothingCreated)

\* C30: an accepted POST /api/sessions with N models has created one session
\* and exactly N runs, run i carrying the i-th provider and model, first
\* recorded as queued, with the session's id as parent; get-session for the
\* returned id answers the prompt of the request and those N runs, in order,
\* each as the run map holds it now.
C30_CreateThenGet ==
  ret.last.op = "postSessions" /\ ret.last.value = 200 =>
    LET models == ret.last.req.body.models
        sid == ret.last.sessionId
        ids == ret.last.runIds
        before == ret.last.before
        got == GetSession(sessions, runs, sid)
    IN /\ sid \notin before.sessions
       /\ DOMAIN sessions = before.sessions \cup {sid}
       /\ Len(ids) = Len(models)
       /\ \A i, j \in 1..Len(ids) : ids[i] = ids[j] => i = j
       /\ \A i \in 1..Len(ids) : ids[i] \notin before.runs
       /\ DOMAIN runs = before.runs \cup {ids[i] : i \in 1..Len(ids)}
       /\ \A i \in 1..Len(ids) :
             /\ runs[ids[i]].id = ids[i]
             /\ runs[ids[i]].provider = models[i].provider
             /\ runs[ids[i]].model = models[i].model
             /\ runs[ids[i]].sessionId = sid
             /\ statusLog[ids[i]][1] = "queued"
             /\ sessions[sid].runs[i].status = "queued"
       /\ got.id = sid
       /\ got.prompt = ret.last.req.body.prompt
       /\ Len(got.runs) = Len(models)
       /\ \A i \in 1..Len(ids) : got.runs[i] = runs[ids[i]]

\* a session of six models was created and two of its runs have been updated
\* since
C30_Witness ==
  /\ ret.last.op = "postSessions"
  /\ ret.last.value = 200
  /\ Len(ret.last.runIds) = 6
  /\ runs["r2"].status = "ready"
  /\ runs["r6"].status = "generating"

\* C31: a PATCH that carries a partial record for an existing run sets exactly
\* the fields of the record (updatedAt excepted, which is set to the time of the
\* call), keeps every other field of the run and every other run, and sets
\* updatedAt of the session the run names as its parent to the time of the
\* call, nothing else in any session; for an unknown run id it answers 404 and
\* the store is unchanged.
C31_UpdateRunFrame ==
  [][ret' # ret /\ ret'.last.op = "patchRun" /\ ret'.last.req.json =>
        LET r == ret'.last.id
            u == ret'.last.req.body
        IN IF r \in DOMAIN runs
           THEN /\ ret'.last.value = 200
                /\ DOMAIN runs' = DOMAIN runs
                /\ DOMAIN runs'[r] = DOMAIN runs[r] \cup DOMAIN u
                /\ \A f \in DOMAIN u \ {"updatedAt"} : runs'[r][f] = u[f]
                /\ \A f \in DOMAIN runs[r] \ (DOMAIN u \cup {"updatedAt"}) :
                      runs'[r][f] = runs[r][f]
                /\ runs'[r].updatedAt = now
                /\ \A o \in DOMAIN runs \ {r} : runs'[o] = runs[o]
                /\ DOMAIN sessions' = DOMAIN sessions
                /\ \A x \in DOMAIN sessions :
                      IF x = runs[r].sessionId
                      THEN sessions'[x] = [sessions[x] EXCEPT !.updatedAt = now]
                      ELSE sessions'[x] = sessions[x]
           ELSE /\ ret'.last.value = 404
                /\ runs' = runs
                /\ sessions' = sessions]_vars

\* a run of a two-run session was PATCHed after the clock advanced: the run and
\* its session carry the new time, the sibling the old one
C31_Witness ==
  /\ ret.last.op = "patchRun"
  /\ ret.last.value = 200
  /\ ret.last.id = "r1"
  /\ "error" \in DOMAIN ret.last.req.body
  /\ {"r1", "r2"} \subseteq DOMAIN runs
  /\ runs["r1"].updatedAt = MaxTime
  /\ runs["r1"].createdAt < MaxTime
  /\ runs["r1"].error = "boom"
  /\ runs["r2"].updatedAt < MaxTime
  /\ runs["r1"].sessionId = "s1"
  /\ "s1" \in DOMAIN sessions
  /\ sessions["s1"].updatedAt = MaxTime

\* the session ids createSession has issued
Created == {SessionOrder[i] : i \in 1..storeLog.sessions}

\* the runs of the run map that carry session id sid
ChildRuns(sid) == {r \in DOMAIN runs : runs[r].sessionId = sid}

\* C32: after any sequence of create-session, delete-run and delete-session, a
\* session is in the store if and only if it was created, was not passed to
\* delete-session and has a child run in the run map; no run of a deleted
\* session is left, and every session lists exactly its child runs.
C32_SessionPresence ==
  /\ \A sid \in SessionIds :
        sid \in DOMAIN sessions <=>
          /\ sid \in Created
          /\ sid \notin storeLog.purged
          /\ ChildRuns(sid) # {}
  /\ \A sid \in storeLog.purged : ChildRuns(sid) = {}
  /\ \A sid \in DOMAIN sessions :
        {sessions[sid].runs[i].id : i \in 1..Len(sessions[sid].runs)} = ChildRuns(sid)

\* the last run of session s1 was deleted, which removed the session without a
\* delete-session, while session s2 is still there
C32_Witness ==
  /\ ret.last.op = "deleteRun"
  /\ "s1" \in Created
  /\ "s1" \notin storeLog.purged
  /\ "s1" \notin DOMAIN sessions
  /\ "s2" \in DOMAIN sessions

\* C39: every run a stored session lists is in the run map and carries that
\* session's id, so get-session answers no missing run.
C39_SessionRunsPresent ==
  \A sid \in DOMAIN sessions :
    \A i \in 1..Len(sessions[sid].runs) :
      /\ sessions[sid].runs[i].id \in DOMAIN runs
      /\ runs[sessions[sid].runs[i].id].sessionId = sid

\* a key of code.files is unsafe when it has a ".." component or is absolute
UnsafePath(f) == (\E i \in 1..Len(f) : f[i] = "..") \/ f[1] = ""

\* the full path lies in the workspace directory of run r
InsideWorkspace(r, full) ==
  LET dir == Normalize(<< >>, WorkspaceDir(r))
  IN /\ Len(full) > Len(dir)
     /\ SubSeq(full, 1, Len(dir)) = dir

\* C33: prepareWorkspace called with a file whose path has a ".." component or
\* is absolute fails with an unsafe-path error, and no call writes a file
\* outside the run's workspace directory.
C33_UnsafePathRejected ==
  ret.last.op = "prepareWorkspace" =>
    /\ ((\E f \in ret.last.files : UnsafePath(f)) => ret.last.status = "UnsafePathError")
    /\ \A full \in ret.last.written : InsideWorkspace(ret.last.id, full)

\* buildPhase has returned for task p: with exit code zero (runPhase is next),
\* with a non-zero exit code, or because start() or wait() of the started
\* build container raised
BuildReturned(p) ==
  \/ procs[p].pc = "runCreate"
  \/ procs[p].err \in {"Build failed with exit code 1",
                        "engine: start build container",
                        "engine: wait build container"}

\* C35: whenever the build operation has returned, with exit code zero, with a
\* non-zero exit code or by raising an engine error, the container
\* build-<runId> has been removed.
C35_BuildContainerRemoved ==
  \A p \in Tasks : BuildReturned(p) => buildC[procs[p].run] = "none"

\* createRun of task p is waiting for the inspect call of the runtime
\* container it started
InsideCreateRun(p) == At(p, "task", "runInspect")

\* C36: every runtime container that was started and is not yet removed is
\* recorded in DockerRuntime.containers under its run id, once the createRun
\* call that started it has returned or thrown.
C36_StartedContainersRecorded ==
  \A r \in RunIds :
    (runC[r].state \in {"running", "exited"} /\ ~InsideCreateRun(runC[r].id)) =>
      /\ r \in DOMAIN containers
      /\ containers[r].cid = runC[r].id

\* generateCode has settled for task p: it is past fs.rm and its chdir
GenerateCodeSettled(p) ==
  procs[p].pc \notin {"patchGenerating", "mkdir", "opencode", "rmTmp"}

\* C37: when every generateCode call started in the daemon has completed, the
\* process working directory is the one from before the first call, and no
\* call failed because the directory it restores to, or starts from, was
\* deleted by another call.
C37_WorkingDirectoryRestored ==
  (Tasks # {} /\ \A p \in Tasks : GenerateCodeSettled(p)) =>
    /\ cwd = NoCwd
    /\ \A p \in Tasks : procs[p].err \notin {"ENOENT: chdir", "ENOENT: uv_cwd"}

\* how many times terminated was written to the store for run r
TerminatedWrites(r) ==
  Cardinality({i \in 1..Len(statusLog[r]) : statusLog[r][i] = "terminated"})

\* the kill requests for run r whose PATCH 'terminated' has been issued
KillsPastPatch(r) ==
  {k \in KillsOf(r) : procs[k].pc = "unregister" \/ procs[k].http = 200}

\* C40: a kill request whose removal of the runtime container failed has
\* answered 500 and has not written terminated, and the run is still in the
\* active-container map while its container exists; once a later kill request
\* for the same run has answered 200, the container and the workspace are gone
\* and terminated was written, and the registry has no entry for the run when
\* its lifecycle task had returned before that request arrived.
C40_KillFailureKeepsEntry ==
  \A p \in Kills :
    LET r == procs[p].run IN
    procs[p].cleanupErr =>
      /\ Done(p) /\ procs[p].http = 500
      /\ TerminatedWrites(r) <= Cardinality(KillsPastPatch(r))
      /\ runC[r].state # "none" => r \in DOMAIN containers
      /\ \A q \in KillsOf(r) :
           (q > p /\ procs[q].http = 200) =>
             /\ runC[r].state = "none"
             /\ r \notin DOMAIN containers
             /\ ~ws[r]
             /\ procs[q].seen = "ready" => ~Registered(r)
             /\ TerminatedWrites(r) >= 1

\* a kill failed at the removal and a later one for the same run succeeded
C40_Witness ==
  \E p, q \in Kills :
    /\ procs[p].run = procs[q].run /\ q > p
    /\ procs[p].cleanupErr /\ procs[p].http = 500
    /\ procs[q].http = 200 /\ procs[q].cid # 0
    /\ StatusOf(procs[q].run) = "terminated"

\* processRun has returned for run r, and unless one of its PATCHes was lost
\* the store shows the status of the last one: ready from the try block, failed
\* from the catch
TaskFinished(r) ==
  /\ Started(r)
  /\ \A p \in TasksOf(r) :
       /\ Done(p)
       /\ ~procs[p].lost =>
            StatusOf(r) = IF procs[p].err = "" THEN "ready" ELSE "failed"

\* C38: every run for which processRun was started eventually has its task
\* returned, with ready or failed as the last status the task wrote.
C38_ProcessRunTerminates == \A r \in RunIds : Started(r) ~> TaskFinished(r)

\* processRun returned although the cleanup in its catch was rejected
C38_Witness ==
  \E p \in Tasks :
    /\ Done(p) /\ procs[p].cleanupErr /\ ~procs[p].lost
    /\ procs[p].err = HealthCheckError
    /\ StatusOf(procs[p].run) = "failed"

\* the SIGTERM handler has called process.exit
AtExit(p) == procs[p].kind = "term" /\ procs[p].pc = "exit"

\* C34: when the SIGTERM handler exits the process it has called killRun for
\* every run id of its snapshot, whether or not an earlier kill failed, and
\* when none of its kills failed no runtime container is still running.
C34_ShutdownKillsContainers ==
  \A p \in Procs :
    AtExit(p) =>
      /\ procs[p].todo = << >>
      /\ ~procs[p].cleanupErr => \A r \in RunIds : runC[r].state # "running"

====
